---- MODULE Spec2Model ----
(***************************************************************************)
(* Model of okkoi: the reference-counted ActorUnit (main.rs), the pair and *)
(* Blueprint composition of units, and the two fixture actors of check.rs. *)
(* Atomics are modelled sequentially consistent, one atomic access or one  *)
(* mutex-protected statement per step.                                     *)
(***************************************************************************)
EXTENDS Integers, Sequences, FiniteSets, TLC

\* ------------------------------------------------------------- bounds
NumCallers == 2      \* concurrent callers of acquire/release
MaxHold == 2         \* a caller issues k acquires then k releases, k <= MaxHold
UsizeBits == 4       \* width of usize in the model (count is AtomicUsize)

NumUnits == 3        \* static ActorUnits U1, U2, U3

Callers == 1..NumCallers
Units == 1..NumUnits
UsizeMod == 2 ^ UsizeBits
UsizeMax == UsizeMod - 1

VARIABLES
    actor,        \* [Units -> kind]: ActorUnit.actor, the Actor implementation
    running,      \* [Units -> BOOLEAN]: ActorUnit.running
    semaphore,    \* [Units -> 0 | caller]: ActorUnit.semaphore, 0 = unlocked
    count,        \* [Units -> 0..UsizeMax]: ActorUnit.count
    entry,        \* [Units -> Seq(pc)]: threads launched by Actor::spawn,
                  \*   each running ActorUnit::start
    stopReq,      \* [Units -> BOOLEAN]: stop signal of a generic actor
    SHARED_DATA,  \* check.rs static: "None" | "Some"
    SHOULD_STOP,  \* check.rs static
    CANNOT_STOP,  \* check.rs static
    dataLock,     \* holder of the SHARED_DATA mutex: <<>> or <<u, i>>
    installs,     \* completed runs of example_state_setup
    root,         \* name of the static the callers use, see Handle
    script,       \* [Callers -> Seq(op)]: calls on the root still to issue
    todo,         \* [Callers -> Seq(<<op, u>>)]: member calls of the current
                  \*   call on the root, in the order the delegation makes them
    pc,           \* [Callers -> position inside the current member call]
    aborts,       \* [Units -> Nat]: calls of Actor::abort so far
    retCount,     \* [Units -> count when the actor's start() last returned]
    log,          \* [Callers -> Seq(<<op, unit, "call" | "ret">>)]: the
                  \*   ActorUnit calls each caller made and returned from
    overlap       \* history: a release was called while some acquire of a
                  \*   script had not returned yet

vars == <<actor, running, semaphore, count, entry, stopReq, SHARED_DATA,
          SHOULD_STOP, CANNOT_STOP, dataLock, installs, root, script, todo,
          pc, aborts, retCount, log, overlap>>

unitVars == <<running, semaphore, count>>
fixtureVars == <<SHARED_DATA, SHOULD_STOP, CANNOT_STOP, dataLock, installs>>
callVars == <<root, script, todo>>

\* ------------------------------------------------------------- handles
\* A Unit implementor is a tuple tagged with its type.
ActorUnit_new(u) == <<"ActorUnit", u>>
Ref(h) == <<"ref", h>>
Pair(a, b) == <<"pair", a, b>>

Blueprint_new(unit) == <<"Blueprint", unit>>

\* Variant: the registered unit is placed second.
register_Swapped(self, unit) == <<"Blueprint", Pair(self, unit)>>
\* Blueprint((unit, self))
register(self, unit) == <<"Blueprint", Pair(unit, self)>>

RECURSIVE acquire(_), release(_)

RefAcquire(h) == acquire(h[2])
RefRelease(h) == release(h[2])

\* self.0.acquire(); self.1.acquire()
PairAcquire(h) == acquire(h[2]) \o acquire(h[3])

\* Variant: release mirrors acquire.
PairRelease_Reversed(h) == release(h[3]) \o release(h[2])
\* self.0.release(); self.1.release()
PairRelease(h) == release(h[2]) \o release(h[3])

\* Variant: the chain forwards acquire twice.
BlueprintAcquire_Twice(h) == acquire(h[2]) \o acquire(h[2])
\* self.0.acquire()
BlueprintAcquire(h) == acquire(h[2])
BlueprintRelease(h) == release(h[2])

\* The ActorUnit calls a call on h makes, in order.
acquire(h) ==
    CASE h[1] = "ActorUnit" -> << <<"acquire", h[2]>> >>
      [] h[1] = "ref" -> RefAcquire(h)
      [] h[1] = "pair" -> PairAcquire(h)
      [] h[1] = "Blueprint" -> BlueprintAcquire(h)

release(h) ==
    CASE h[1] = "ActorUnit" -> << <<"release", h[2]>> >>
      [] h[1] = "ref" -> RefRelease(h)
      [] h[1] = "pair" -> PairRelease(h)
      [] h[1] = "Blueprint" -> BlueprintRelease(h)

BareUnit == ActorUnit_new(1)
ChainOfOne == Blueprint_new(ActorUnit_new(1))
PairAB == Pair(Ref(ActorUnit_new(1)), Ref(ActorUnit_new(2)))
ChainOfThree ==
    register(register(Blueprint_new(ActorUnit_new(1)), ActorUnit_new(2)),
             ActorUnit_new(3))

\* The static a root name stands for.
Handle(r) ==
    CASE r = "unit" -> BareUnit
      [] r = "chain1" -> ChainOfOne
      [] r = "pair" -> PairAB
      [] r = "chain3" -> ChainOfThree

\* ------------------------------------------------------------- helpers
RECURSIVE Repeat(_, _)
Repeat(x, n) == IF n = 0 THEN <<>> ELSE <<x>> \o Repeat(x, n - 1)

\* k acquires followed by k releases.
Paired(k) == Repeat("acquire", k) \o Repeat("release", k)

Cur(c) == Head(todo[c])
CurUnit(c) == Cur(c)[2]

\* Some caller has an acquire it has not returned from: still in its script
\* or among the ActorUnit calls of its current call.
AcquirePending ==
    \E c \in Callers :
       \/ \E k \in 1..Len(script[c]) : script[c][k] = "acquire"
       \/ \E k \in 1..Len(todo[c]) : todo[c][k][1] = "acquire"

\* The entry threads of unit u that are at one of the positions in S.
EntriesAt(u, S) == {i \in 1..Len(entry[u]) : entry[u][i] \in S}
Spawns(u) == Len(entry[u])

\* ------------------------------------------------------------- initial states
InitUnits ==
    /\ running = [u \in Units |-> FALSE]
    /\ semaphore = [u \in Units |-> 0]
    /\ count = [u \in Units |-> 0]
    /\ entry = [u \in Units |-> <<>>]
    /\ stopReq = [u \in Units |-> FALSE]
    /\ aborts = [u \in Units |-> 0]
    /\ retCount = [u \in Units |-> 0]
    /\ todo = [c \in Callers |-> <<>>]
    /\ pc = [c \in Callers |-> "idle"]
    /\ log = [c \in Callers |-> <<>>]
    /\ overlap = FALSE

\* The statics of check.rs as cleanup() leaves them.
InitFixture ==
    /\ SHARED_DATA = "None"
    /\ SHOULD_STOP = FALSE
    /\ CANNOT_STOP = FALSE
    /\ dataLock = <<>>
    /\ installs = 0

PairedScripts == {Paired(k) : k \in 1..MaxHold}

\* One bare unit, an actor whose start() returns once abort was called,
\* callers that pair their calls.
Init ==
    /\ InitUnits
    /\ InitFixture
    /\ actor = [u \in Units |-> "Obedient"]
    /\ root = "unit"
    /\ script \in [Callers -> PairedScripts]

\* ------------------------------------------------------------- callers
\* A caller issues its next call on the root; the impls for &T1, (U1, U2)
\* and Blueprint delegate it to the ActorUnit calls in todo.
Invoke(c) ==
    /\ pc[c] = "idle"
    /\ todo[c] = <<>>
    /\ script[c] # <<>>
    /\ todo' = [todo EXCEPT ![c] =
                  IF Head(script[c]) = "acquire" THEN acquire(Handle(root))
                  ELSE release(Handle(root))]
    /\ script' = [script EXCEPT ![c] = Tail(script[c])]
    /\ UNCHANGED <<actor, unitVars, entry, stopReq, fixtureVars, root, pc,
                   aborts, retCount, log, overlap>>

\* The next ActorUnit call of the delegation starts.
Call(c) ==
    /\ pc[c] = "idle"
    /\ todo[c] # <<>>
    /\ pc' = [pc EXCEPT ![c] = "lock"]
    /\ log' = [log EXCEPT ![c] = Append(@, <<Cur(c)[1], CurUnit(c), "call">>)]
    /\ overlap' = (overlap \/ (Cur(c)[1] = "release" /\ AcquirePending))
    /\ UNCHANGED <<actor, unitVars, entry, stopReq, fixtureVars, callVars,
                   aborts, retCount>>

\* Variant: the lock is taken without waiting for its holder.
Lock_Barging(c) ==
    /\ pc[c] = "lock"
    /\ semaphore' = [semaphore EXCEPT ![CurUnit(c)] = c]
    /\ pc' = [pc EXCEPT ![c] = "fetch"]
    /\ UNCHANGED <<actor, running, count, entry, stopReq, fixtureVars,
                   callVars, aborts, retCount, log, overlap>>
\* self.semaphore.lock().unwrap()
Lock(c) ==
    /\ pc[c] = "lock"
    /\ semaphore[CurUnit(c)] = 0
    /\ semaphore' = [semaphore EXCEPT ![CurUnit(c)] = c]
    /\ pc' = [pc EXCEPT ![c] = "fetch"]
    /\ UNCHANGED <<actor, running, count, entry, stopReq, fixtureVars,
                   callVars, aborts, retCount, log, overlap>>

\* Variant: launches whatever the previous count was.
AcquireFetchAdd_Always(c) ==
    /\ pc[c] = "fetch"
    /\ Cur(c)[1] = "acquire"
    /\ count' = [count EXCEPT ![CurUnit(c)] = (@ + 1) % UsizeMod]
    /\ pc' = [pc EXCEPT ![c] = "spawn"]
    /\ UNCHANGED <<actor, running, semaphore, entry, stopReq, fixtureVars,
                   callVars, aborts, retCount, log, overlap>>
\* (self.count.fetch_add(1) == 0).then(spawn)
AcquireFetchAdd(c) ==
    /\ pc[c] = "fetch"
    /\ Cur(c)[1] = "acquire"
    /\ count' = [count EXCEPT ![CurUnit(c)] = (@ + 1) % UsizeMod]
    /\ pc' = [pc EXCEPT ![c] =
                IF count[CurUnit(c)] = 0 THEN "spawn" ELSE "drop"]
    /\ UNCHANGED <<actor, running, semaphore, entry, stopReq, fixtureVars,
                   callVars, aborts, retCount, log, overlap>>

\* Variant: compares the previous count with 0 instead of 1.
ReleaseFetchSub_PrevZero(c) ==
    /\ pc[c] = "fetch"
    /\ Cur(c)[1] = "release"
    /\ count' = [count EXCEPT ![CurUnit(c)] = (@ + UsizeMod - 1) % UsizeMod]
    /\ pc' = [pc EXCEPT ![c] =
                IF count[CurUnit(c)] = 0 THEN "abort" ELSE "drop"]
    /\ UNCHANGED <<actor, running, semaphore, entry, stopReq, fixtureVars,
                   callVars, aborts, retCount, log, overlap>>
\* Variant: the decrement saturates at 0.
ReleaseFetchSub_Saturating(c) ==
    /\ pc[c] = "fetch"
    /\ Cur(c)[1] = "release"
    /\ count' = [count EXCEPT ![CurUnit(c)] = IF @ = 0 THEN 0 ELSE @ - 1]
    /\ pc' = [pc EXCEPT ![c] =
                IF count[CurUnit(c)] = 1 THEN "abort" ELSE "drop"]
    /\ UNCHANGED <<actor, running, semaphore, entry, stopReq, fixtureVars,
                   callVars, aborts, retCount, log, overlap>>
\* Variant: stops whatever the previous count was.
ReleaseFetchSub_Always(c) ==
    /\ pc[c] = "fetch"
    /\ Cur(c)[1] = "release"
    /\ count' = [count EXCEPT ![CurUnit(c)] = (@ + UsizeMod - 1) % UsizeMod]
    /\ pc' = [pc EXCEPT ![c] = "abort"]
    /\ UNCHANGED <<actor, running, semaphore, entry, stopReq, fixtureVars,
                   callVars, aborts, retCount, log, overlap>>
\* (self.count.fetch_sub(1) == 1).then(abort)
ReleaseFetchSub(c) ==
    /\ pc[c] = "fetch"
    /\ Cur(c)[1] = "release"
    /\ count' = [count EXCEPT ![CurUnit(c)] = (@ + UsizeMod - 1) % UsizeMod]
    /\ pc' = [pc EXCEPT ![c] =
                IF count[CurUnit(c)] = 1 THEN "abort" ELSE "drop"]
    /\ UNCHANGED <<actor, running, semaphore, entry, stopReq, fixtureVars,
                   callVars, aborts, retCount, log, overlap>>

\* Variant: the guard is dropped before the wait for running.
Spawn_DropsGuard(c) ==
    /\ pc[c] = "spawn"
    /\ entry' = [entry EXCEPT ![CurUnit(c)] = Append(@, "spawned")]
    /\ semaphore' = [semaphore EXCEPT ![CurUnit(c)] = 0]
    /\ pc' = [pc EXCEPT ![c] = "wait_running"]
    /\ UNCHANGED <<actor, running, count, stopReq, fixtureVars, callVars,
                   aborts, retCount, log, overlap>>
\* ActorUnit::spawn: A1::spawn(Self::start, self) starts a thread.
Spawn(c) ==
    /\ pc[c] = "spawn"
    /\ entry' = [entry EXCEPT ![CurUnit(c)] = Append(@, "spawned")]
    /\ pc' = [pc EXCEPT ![c] = "wait_running"]
    /\ UNCHANGED <<actor, unitVars, stopReq, fixtureVars, callVars, aborts,
                   retCount, log, overlap>>

\* Variant: spawn returns without waiting for running.
SpawnWait_NoWait(c) ==
    /\ pc[c] = "wait_running"
    /\ pc' = [pc EXCEPT ![c] = "drop"]
    /\ UNCHANGED <<actor, unitVars, entry, stopReq, fixtureVars, callVars,
                   aborts, retCount, log, overlap>>
\* ActorUnit::spawn: while !self.running.load() { yield_now() }
SpawnWait(c) ==
    /\ pc[c] = "wait_running"
    /\ running[CurUnit(c)]
    /\ pc' = [pc EXCEPT ![c] = "drop"]
    /\ UNCHANGED <<actor, unitVars, entry, stopReq, fixtureVars, callVars,
                   aborts, retCount, log, overlap>>

\* Variant: the guard is dropped before the wait for !running.
ObedientAbort_DropsGuard(c) ==
    /\ pc[c] = "abort"
    /\ actor[CurUnit(c)] \in {"Obedient", "Early"}
    /\ stopReq' = [stopReq EXCEPT ![CurUnit(c)] = TRUE]
    /\ aborts' = [aborts EXCEPT ![CurUnit(c)] = @ + 1]
    /\ semaphore' = [semaphore EXCEPT ![CurUnit(c)] = 0]
    /\ pc' = [pc EXCEPT ![c] = "wait_stopped"]
    /\ UNCHANGED <<actor, running, count, entry, fixtureVars, callVars,
                   retCount, log, overlap>>
\* ActorUnit::abort: self.actor.abort() of an actor with a stop signal.
ObedientAbort(c) ==
    /\ pc[c] = "abort"
    /\ actor[CurUnit(c)] \in {"Obedient", "Early"}
    /\ stopReq' = [stopReq EXCEPT ![CurUnit(c)] = TRUE]
    /\ aborts' = [aborts EXCEPT ![CurUnit(c)] = @ + 1]
    /\ pc' = [pc EXCEPT ![c] = "wait_stopped"]
    /\ UNCHANGED <<actor, unitVars, entry, fixtureVars, callVars, retCount,
                   log, overlap>>

\* check.rs abort: *SHARED_DATA.lock().unwrap() = None
FixtureAbortClear(c) ==
    /\ pc[c] = "abort"
    /\ actor[CurUnit(c)] \in {"RaceWithoutSetup", "NoRaceWithSetup"}
    /\ dataLock = <<>>
    /\ SHARED_DATA' = "None"
    /\ aborts' = [aborts EXCEPT ![CurUnit(c)] = @ + 1]
    /\ pc' = [pc EXCEPT ![c] = "abort_flag"]
    /\ UNCHANGED <<actor, unitVars, entry, stopReq, SHOULD_STOP, CANNOT_STOP,
                   dataLock, installs, callVars, retCount, log, overlap>>

\* check.rs abort: SHOULD_STOP.store(true)
FixtureAbortFlag(c) ==
    /\ pc[c] = "abort_flag"
    /\ SHOULD_STOP' = TRUE
    /\ pc' = [pc EXCEPT ![c] = "wait_stopped"]
    /\ UNCHANGED <<actor, unitVars, entry, stopReq, SHARED_DATA, CANNOT_STOP,
                   dataLock, installs, callVars, aborts, retCount, log, overlap>>

\* Variant: abort returns without waiting for !running.
AbortWait_NoWait(c) ==
    /\ pc[c] = "wait_stopped"
    /\ pc' = [pc EXCEPT ![c] = "drop"]
    /\ UNCHANGED <<actor, unitVars, entry, stopReq, fixtureVars, callVars,
                   aborts, retCount, log, overlap>>
\* ActorUnit::abort: while self.running.load() { yield_now() }
AbortWait(c) ==
    /\ pc[c] = "wait_stopped"
    /\ ~running[CurUnit(c)]
    /\ pc' = [pc EXCEPT ![c] = "drop"]
    /\ UNCHANGED <<actor, unitVars, entry, stopReq, fixtureVars, callVars,
                   aborts, retCount, log, overlap>>

\* drop(ManuallyDrop::into_inner(guard)); the ActorUnit call returns.
Drop(c) ==
    /\ pc[c] = "drop"
    /\ semaphore' = [semaphore EXCEPT ![CurUnit(c)] = 0]
    /\ pc' = [pc EXCEPT ![c] = "idle"]
    /\ log' = [log EXCEPT ![c] = Append(@, <<Cur(c)[1], CurUnit(c), "ret">>)]
    /\ todo' = [todo EXCEPT ![c] = Tail(@)]
    /\ UNCHANGED <<actor, running, count, entry, stopReq, fixtureVars, root,
                   script, aborts, retCount, overlap>>

\* ------------------------------------------------------------- launched entry
\* The i-th thread of unit u exists once Actor::spawn has started it.
MaxEntries == NumCallers * (MaxHold + 1)
EntryIds == 1..MaxEntries
Launched(u, i) == i <= Len(entry[u])

\* Where the user's start() begins for each actor.
StartPc(kind) ==
    CASE kind = "RaceWithoutSetup" -> "setup"
      [] kind = "NoRaceWithSetup" -> "loop"
      [] OTHER -> "start"

\* ActorUnit::start: this.running(), then this.actor.start() begins.
EntryRunning(u, i) ==
    /\ Launched(u, i)
    /\ entry[u][i] = "spawned"
    /\ running' = [running EXCEPT ![u] = TRUE]
    /\ entry' = [entry EXCEPT ![u][i] = StartPc(actor[u])]
    /\ UNCHANGED <<actor, semaphore, count, stopReq, fixtureVars, callVars,
                   pc, aborts, retCount, log, overlap>>

\* start() of an actor that watches its stop signal returns once it is set
\* and takes the signal with it, so that the actor can be started again.
ObedientStart(u, i) ==
    /\ Launched(u, i)
    /\ entry[u][i] = "start"
    /\ stopReq[u]
    /\ stopReq' = [stopReq EXCEPT ![u] = FALSE]
    /\ entry' = [entry EXCEPT ![u][i] = "returned"]
    /\ retCount' = [retCount EXCEPT ![u] = count[u]]
    /\ UNCHANGED <<actor, unitVars, fixtureVars, callVars, pc, aborts, log, overlap>>

\* start() of an actor that may give up on its own, without a stop signal.
EarlyReturn(u, i) ==
    /\ Launched(u, i)
    /\ entry[u][i] = "start"
    /\ actor[u] = "Early"
    /\ ~stopReq[u]
    /\ entry' = [entry EXCEPT ![u][i] = "returned"]
    /\ retCount' = [retCount EXCEPT ![u] = count[u]]
    /\ UNCHANGED <<actor, unitVars, stopReq, fixtureVars, callVars, pc,
                   aborts, log, overlap>>

\* Variant: the check is inverted.
EntryCheck_Inverted(u, i) ==
    /\ Launched(u, i)
    /\ entry[u][i] = "returned"
    /\ entry' = [entry EXCEPT ![u][i] =
                   IF count[u] = 0 THEN "panicked" ELSE "clean"]
    /\ UNCHANGED <<actor, unitVars, stopReq, fixtureVars, callVars, pc,
                   aborts, retCount, log, overlap>>
\* ActorUnit::start: if this.count.load() != 0 { panic!("actor exited early") }
EntryCheck(u, i) ==
    /\ Launched(u, i)
    /\ entry[u][i] = "returned"
    /\ entry' = [entry EXCEPT ![u][i] =
                   IF count[u] # 0 THEN "panicked" ELSE "clean"]
    /\ UNCHANGED <<actor, unitVars, stopReq, fixtureVars, callVars, pc,
                   aborts, retCount, log, overlap>>

\* ActorUnit::start: this.running.store(false)
EntryStopped(u, i) ==
    /\ Launched(u, i)
    /\ entry[u][i] = "clean"
    /\ running' = [running EXCEPT ![u] = FALSE]
    /\ entry' = [entry EXCEPT ![u][i] = "done"]
    /\ UNCHANGED <<actor, semaphore, count, stopReq, fixtureVars, callVars,
                   pc, aborts, retCount, log, overlap>>

\* ------------------------------------------------------------- check.rs
\* example_state_setup: *SHARED_DATA.lock().unwrap() = Some(())
ExampleStateSetup(u, i) ==
    /\ Launched(u, i)
    /\ entry[u][i] = "setup"
    /\ dataLock = <<>>
    /\ SHARED_DATA' = "Some"
    /\ installs' = installs + 1
    /\ entry' = [entry EXCEPT ![u][i] = "loop"]
    /\ UNCHANGED <<actor, unitVars, stopReq, SHOULD_STOP, CANNOT_STOP,
                   dataLock, callVars, pc, aborts, retCount, log, overlap>>

\* example_start: let lock = SHARED_DATA.lock().unwrap()
LoopLock(u, i) ==
    /\ Launched(u, i)
    /\ entry[u][i] = "loop"
    /\ dataLock = <<>>
    /\ dataLock' = <<u, i>>
    /\ entry' = [entry EXCEPT ![u][i] = "locked"]
    /\ UNCHANGED <<actor, unitVars, stopReq, SHARED_DATA, SHOULD_STOP,
                   CANNOT_STOP, installs, callVars, pc, aborts, retCount, log, overlap>>

\* example_start: let Some(_) = lock.as_ref() else { break }
LoopData(u, i) ==
    /\ Launched(u, i)
    /\ entry[u][i] = "locked"
    /\ IF SHARED_DATA = "None"
       THEN /\ entry' = [entry EXCEPT ![u][i] = "returned"]
            /\ retCount' = [retCount EXCEPT ![u] = count[u]]
            /\ dataLock' = <<>>
       ELSE /\ entry' = [entry EXCEPT ![u][i] = "stopchk"]
            /\ UNCHANGED <<retCount, dataLock>>
    /\ UNCHANGED <<actor, unitVars, stopReq, SHARED_DATA, SHOULD_STOP,
                   CANNOT_STOP, installs, callVars, pc, aborts, log, overlap>>

\* Variant: the flag is read inverted.
LoopStop_Inverted(u, i) ==
    /\ Launched(u, i)
    /\ entry[u][i] = "stopchk"
    /\ dataLock' = <<>>
    /\ IF ~SHOULD_STOP
       THEN /\ CANNOT_STOP' = TRUE
            /\ entry' = [entry EXCEPT ![u][i] = "returned"]
            /\ retCount' = [retCount EXCEPT ![u] = count[u]]
       ELSE /\ entry' = [entry EXCEPT ![u][i] = "loop"]
            /\ UNCHANGED <<CANNOT_STOP, retCount>>
    /\ UNCHANGED <<actor, unitVars, stopReq, SHARED_DATA, SHOULD_STOP,
                   installs, callVars, pc, aborts, log, overlap>>
\* example_start: if SHOULD_STOP.load() { CANNOT_STOP.store(true); break }
\* else drop(lock) and sleep.
LoopStop(u, i) ==
    /\ Launched(u, i)
    /\ entry[u][i] = "stopchk"
    /\ dataLock' = <<>>
    /\ IF SHOULD_STOP
       THEN /\ CANNOT_STOP' = TRUE
            /\ entry' = [entry EXCEPT ![u][i] = "returned"]
            /\ retCount' = [retCount EXCEPT ![u] = count[u]]
       ELSE /\ entry' = [entry EXCEPT ![u][i] = "loop"]
            /\ UNCHANGED <<CANNOT_STOP, retCount>>
    /\ UNCHANGED <<actor, unitVars, stopReq, SHARED_DATA, SHOULD_STOP,
                   installs, callVars, pc, aborts, log, overlap>>

\* ------------------------------------------------------------- specifications
CallerStep(c) ==
    \/ Invoke(c)
    \/ Call(c)
    \/ Lock(c)
    \/ AcquireFetchAdd(c)
    \/ ReleaseFetchSub(c)
    \/ Spawn(c)
    \/ SpawnWait(c)
    \/ AbortWait(c)
    \/ Drop(c)

EntryStep(u, i) ==
    \/ EntryRunning(u, i)
    \/ EntryCheck(u, i)
    \/ EntryStopped(u, i)

ActorStep(u, i) ==
    \/ EntryStep(u, i)
    \/ ObedientStart(u, i)

Next ==
    \/ \E c \in Callers : CallerStep(c) \/ ObedientAbort(c)
    \/ \E u \in Units, i \in EntryIds : ActorStep(u, i)

Spec == Init /\ [][Next]_vars

\* ---- calls that need not be paired
Ops == {"acquire", "release"}
AnyScripts == UNION {[1..n -> Ops] : n \in 1..(MaxHold + 1)}

InitUnpaired ==
    /\ InitUnits
    /\ InitFixture
    /\ actor = [u \in Units |-> "Obedient"]
    /\ root = "unit"
    /\ script \in [Callers -> AnyScripts \cup {Paired(1)}]
    /\ \A c \in Callers : c # 1 => script[c] = Paired(1)

SpecUnpaired == InitUnpaired /\ [][Next]_vars

\* ---- an actor whose start() may return without having been asked to
InitEarly ==
    /\ InitUnits
    /\ InitFixture
    /\ actor = [u \in Units |-> "Early"]
    /\ root = "unit"
    /\ script = [c \in Callers |-> Paired(1)]

NextEarly ==
    \/ Next
    \/ \E u \in Units, i \in EntryIds : EarlyReturn(u, i)

SpecEarly == InitEarly /\ [][NextEarly]_vars

\* ---- the two tests of check.rs: one caller, acquire then release.
\* Actor (main.rs) declares no setup method and ActorUnit calls none, so
\* NoRaceWithSetupActor::setup has no caller: its start() is example_start
\* alone and example_state_setup runs only inside RaceWithoutSetupActor::start.
InitCheck ==
    /\ InitUnits
    /\ InitFixture
    /\ actor \in [Units -> {"RaceWithoutSetup", "NoRaceWithSetup"}]
    /\ \A u \in Units : actor[u] = actor[1]
    /\ root = "unit"
    /\ script = [c \in Callers |-> IF c = 1 THEN Paired(1) ELSE <<>>]

FixtureStep(u, i) ==
    \/ EntryStep(u, i)
    \/ ExampleStateSetup(u, i)
    \/ LoopLock(u, i)
    \/ LoopData(u, i)
    \/ LoopStop(u, i)

NextCheck ==
    \/ \E c \in Callers :
          CallerStep(c) \/ FixtureAbortClear(c) \/ FixtureAbortFlag(c)
    \/ \E u \in Units, i \in EntryIds : FixtureStep(u, i)

SpecCheck == InitCheck /\ [][NextCheck]_vars

\* ---- composition: a pair or a chain of three units
InitChain ==
    /\ InitUnits
    /\ InitFixture
    /\ actor = [u \in Units |-> "Obedient"]
    /\ root \in {"pair", "chain3"}
    /\ script = [c \in Callers |-> Paired(1)]

SpecChain == InitChain /\ [][Next]_vars

\* ---- composition depth: the bare unit and the chain holding only it
InitDepth ==
    /\ InitUnits
    /\ InitFixture
    /\ actor = [u \in Units |-> "Obedient"]
    /\ root \in {"unit", "chain1"}
    /\ script \in [Callers -> PairedScripts]

SpecDepth == InitDepth /\ [][Next]_vars

\* ------------------------------------------------------------- properties
Returned(c) == script[c] = <<>> /\ todo[c] = <<>> /\ pc[c] = "idle"
AllReturned == \A c \in Callers : Returned(c)

IsPrefix(s, t) ==
    /\ Len(s) <= Len(t)
    /\ \A k \in 1..Len(s) : s[k] = t[k]

Last(s) == s[Len(s)]

\* C1: when all N acquire calls returned before the first of the N release
\* calls was made, then once every call has returned running is false and
\* Actor::spawn and Actor::abort were each called exactly once.
C1_CountCorrectness ==
    (AllReturned /\ ~overlap) =>
        (~running[1] /\ Spawns(1) = 1 /\ aborts[1] = 1)

C1_Witness ==
    /\ AllReturned
    /\ ~overlap
    /\ \A c \in Callers : Len(log[c]) >= 4
    /\ ~running[1] /\ Spawns(1) = 1 /\ aborts[1] = 1

\* C2: an acquire whose fetch_add finds count > 0 goes on to drop the guard
\* without launching; a thread is launched only by a caller that is inside
\* acquire, holds the semaphore and has just moved count from 0 to 1.
C2_NoDoubleLaunch ==
    [][/\ \A c \in Callers :
            (/\ pc[c] = "fetch" /\ Cur(c)[1] = "acquire"
             /\ count[CurUnit(c)] > 0 /\ pc'[c] # pc[c])
            => (pc'[c] = "drop" /\ entry' = entry)
       /\ \A u \in Units :
            entry'[u] # entry[u] =>
              /\ Len(entry'[u]) = Len(entry[u]) + 1 =>
                   /\ count[u] = 1
                   /\ \E c \in Callers :
                        /\ semaphore[u] = c
                        /\ pc[c] = "spawn"
                        /\ Cur(c) = <<"acquire", u>>
              /\ Len(entry'[u]) <= Len(entry[u]) + 1]_vars

C2_Witness ==
    /\ count[1] >= 3
    /\ Spawns(1) = 1
    /\ \A c \in Callers : pc[c] = "idle"

\* C3: a release whose fetch_sub leaves count > 0 goes on to drop the guard
\* without calling Actor::abort and without touching running; abort is called
\* only by a caller that is inside release, holds the semaphore and has just
\* moved count from 1 to 0.
C3_NoPrematureStop ==
    [][/\ \A c \in Callers :
            (/\ pc[c] = "fetch" /\ Cur(c)[1] = "release"
             /\ count[CurUnit(c)] > 1 /\ pc'[c] # pc[c])
            => (pc'[c] = "drop" /\ aborts' = aborts /\ running' = running
                /\ stopReq' = stopReq)
       /\ \A u \in Units :
            aborts'[u] # aborts[u] =>
              /\ aborts'[u] = aborts[u] + 1
              /\ count[u] = 0
              /\ \E c \in Callers :
                   /\ semaphore[u] = c
                   /\ pc[c] = "abort"
                   /\ Cur(c) = <<"release", u>>]_vars

C3_Witness ==
    /\ \E c \in Callers :
          /\ log[c] # <<>>
          /\ Last(log[c]) = <<"release", 1, "ret">>
    /\ count[1] > 0
    /\ aborts[1] = 0
    /\ running[1]

\* C4: for the actor that has a setup hook, a thread is launched only after
\* the hook (example_state_setup) has run to completion.
C4_PrepareBeforeLaunch ==
    \A u \in Units :
       (actor[u] = "NoRaceWithSetup" /\ Spawns(u) > 0) => installs > 0

\* C5: with the actor that has a setup hook, acquire then release never sets
\* CANNOT_STOP, the launched entry never dies of an unrequested exit, and when
\* release has returned the unit is stopped.
C5_NoRaceWithSetup ==
    actor[1] = "NoRaceWithSetup" =>
        /\ ~CANNOT_STOP
        /\ EntriesAt(1, {"panicked"}) = {}
        /\ Returned(1) => (~running[1] /\ count[1] = 0)

\* C6: with the actor whose start() installs the shared state itself,
\* CANNOT_STOP is set only after abort cleared the state and set SHOULD_STOP
\* and the setup write then put the state back; release still returns with
\* running false. The witness is the interleaving in which this happens.
C6_RaceFoldedSetup ==
    actor[1] = "RaceWithoutSetup" =>
        /\ CANNOT_STOP =>
             (SHOULD_STOP /\ SHARED_DATA = "Some" /\ aborts[1] = 1)
        /\ Returned(1) => (~running[1] /\ count[1] = 0)

C6_Witness ==
    /\ actor[1] = "RaceWithoutSetup"
    /\ CANNOT_STOP
    /\ Returned(1)
    /\ ~running[1]

\* C7 as claimed: count never holds usize::MAX.
C7_NeverWraps == \A u \in Units : count[u] # UsizeMax

\* C7 as amended: a release that finds count = 0 is not detected: it wraps
\* count to usize::MAX and goes on to drop the guard without calling abort;
\* the next acquire brings count back to 0 and launches nothing.
C7_UnpairedReleaseWraps ==
    [][\A c \in Callers :
          /\ (/\ pc[c] = "fetch" /\ Cur(c)[1] = "release"
              /\ count[CurUnit(c)] = 0 /\ pc'[c] # pc[c])
             => (/\ count'[CurUnit(c)] = UsizeMax
                 /\ pc'[c] = "drop"
                 /\ aborts' = aborts)
          /\ (/\ pc[c] = "fetch" /\ Cur(c)[1] = "acquire"
              /\ count[CurUnit(c)] = UsizeMax /\ pc'[c] # pc[c])
             => (/\ count'[CurUnit(c)] = 0
                 /\ pc'[c] = "drop"
                 /\ entry' = entry)]_vars

C7_Witness ==
    /\ count[1] = UsizeMax
    /\ semaphore[1] = 0
    /\ \E c \in Callers :
          /\ log[c] # <<>>
          /\ Last(log[c]) = <<"release", 1, "ret">>

\* C8 as claimed: an entry whose start() returned while count was nonzero
\* never goes on to the clean stop.
C8_ExitWhileHeldIsFatal ==
    [][\A u \in Units, i \in EntryIds :
          (/\ Launched(u, i) /\ entry[u][i] = "returned"
           /\ retCount[u] # 0 /\ entry'[u][i] # "returned")
          => entry'[u][i] = "panicked"]_vars

\* C8 as amended: an entry that finds count nonzero at its check after
\* start() returned panics and leaves running true, and running stays true
\* from then on.
C8_ObservedNonzeroIsFatal ==
    /\ [][\A u \in Units, i \in EntryIds :
             (/\ Launched(u, i) /\ entry[u][i] = "returned"
              /\ count[u] # 0 /\ entry'[u][i] # "returned")
             => (entry'[u][i] = "panicked" /\ running' = running)]_vars
    /\ [](\A u \in Units : EntriesAt(u, {"panicked"}) # {} => running[u])

C8_Witness ==
    /\ EntriesAt(1, {"panicked"}) # {}
    /\ running[1]
    /\ \E c \in Callers : pc[c] = "wait_stopped"

\* C9: on the chain Blueprint::new(U1).register(U2).register(U3) every caller
\* calls U3, U2, U1 in this order for acquire and again for release, each
\* call returning before the next starts.
ChainOrder ==
    << <<"acquire", 3, "call">>, <<"acquire", 3, "ret">>,
       <<"acquire", 2, "call">>, <<"acquire", 2, "ret">>,
       <<"acquire", 1, "call">>, <<"acquire", 1, "ret">>,
       <<"release", 3, "call">>, <<"release", 3, "ret">>,
       <<"release", 2, "call">>, <<"release", 2, "ret">>,
       <<"release", 1, "call">>, <<"release", 1, "ret">> >>

C9_ChainOrdering ==
    root = "chain3" => \A c \in Callers : IsPrefix(log[c], ChainOrder)

C9_Witness == root = "chain3" /\ \A c \in Callers : log[c] = ChainOrder

\* C10: on the pair (A, B) every caller calls A then B for acquire and A then
\* B for release, each call returning before the next starts, and holds no
\* semaphore between two member calls.
PairOrder ==
    << <<"acquire", 1, "call">>, <<"acquire", 1, "ret">>,
       <<"acquire", 2, "call">>, <<"acquire", 2, "ret">>,
       <<"release", 1, "call">>, <<"release", 1, "ret">>,
       <<"release", 2, "call">>, <<"release", 2, "ret">> >>

C10_PairOrdering ==
    root = "pair" =>
        \A c \in Callers :
           /\ IsPrefix(log[c], PairOrder)
           /\ pc[c] = "idle" => \A u \in Units : semaphore[u] # c

\* Caller 1 is between A.acquire and B.acquire while caller 2 is inside its
\* call on A.
C10_Witness ==
    /\ root = "pair"
    /\ log[1] = << <<"acquire", 1, "call">>, <<"acquire", 1, "ret">> >>
    /\ pc[1] = "idle"
    /\ semaphore[1] = 2
    /\ pc[2] = "drop"

\* C11: a chain of one unit and the bare unit behave alike. Every step taken
\* with either as the root is a step of the system whose root is the bare
\* unit and a step of the system whose root is Blueprint::new(U1): the two
\* go through the same states and have the same steps enabled.
InvokeOn(c, r) ==
    /\ pc[c] = "idle"
    /\ todo[c] = <<>>
    /\ script[c] # <<>>
    /\ todo' = [todo EXCEPT ![c] =
                  IF Head(script[c]) = "acquire" THEN acquire(Handle(r))
                  ELSE release(Handle(r))]
    /\ script' = [script EXCEPT ![c] = Tail(script[c])]
    /\ UNCHANGED <<actor, unitVars, entry, stopReq, fixtureVars, root, pc,
                   aborts, retCount, log, overlap>>

NextOn(r) ==
    \/ \E c \in Callers :
          \/ InvokeOn(c, r)
          \/ Call(c) \/ Lock(c) \/ AcquireFetchAdd(c) \/ ReleaseFetchSub(c)
          \/ Spawn(c) \/ SpawnWait(c) \/ ObedientAbort(c) \/ AbortWait(c)
          \/ Drop(c)
    \/ \E u \in Units, i \in EntryIds : ActorStep(u, i)

C11_DepthOneIsBare == [][NextOn("unit") /\ NextOn("chain1")]_vars

C11_Witness ==
    /\ root = "chain1"
    /\ AllReturned
    /\ Spawns(1) = 2
    /\ aborts[1] = 2
    /\ count[1] = 0 /\ ~running[1]

\* Caller c is inside a call on unit u: past Call, not yet returned.
InCall(c, u) == pc[c] # "idle" /\ CurUnit(c) = u

\* C12 as claimed: while a unit is activating (the launching acquire waits
\* for running), a second acquire that arrives is not held up: it can take
\* the semaphore and apply its increment.
C12_SecondAcquireNotHeldUp ==
    \A c \in Callers, d \in Callers :
       (/\ pc[c] = "wait_running" /\ ~running[CurUnit(c)]
        /\ pc[d] = "lock" /\ Cur(d) = <<"acquire", CurUnit(c)>>)
       => semaphore[CurUnit(c)] = 0

\* C12 as amended: while the launching acquire is launching or waiting for
\* running it holds the semaphore, count stays 1 and every other caller of
\* the unit is still before its lock; an acquire that finds count > 0 at its
\* fetch_add finds running already true and then does not wait for it.
C12_SecondAcquireWaitsForLock ==
    /\ \A c \in Callers :
         pc[c] \in {"spawn", "wait_running"} =>
           /\ semaphore[CurUnit(c)] = c
           /\ count[CurUnit(c)] = 1
           /\ \A d \in Callers \ {c} :
                InCall(d, CurUnit(c)) => pc[d] = "lock"
    /\ \A d \in Callers :
         (pc[d] = "fetch" /\ Cur(d)[1] = "acquire" /\ count[CurUnit(d)] > 0)
         => running[CurUnit(d)]

C12_Witness ==
    \E c \in Callers, d \in Callers :
       /\ pc[c] = "wait_running" /\ CurUnit(c) = 1
       /\ ~running[1]
       /\ Spawns(1) = 1
       /\ pc[d] = "lock" /\ Cur(d) = <<"acquire", 1>>

\* C13 as claimed: a caller that spin-waits for running to change does not
\* hold the semaphore.
C13_WaitWithoutLock ==
    \A c \in Callers :
       pc[c] \in {"wait_running", "wait_stopped"}
       => semaphore[CurUnit(c)] # c

\* C13 as amended: the semaphore is held from the lock to the drop at the
\* end of acquire()/release(), the spin-wait for running included.
C13_LockHeldThroughWait ==
    \A c \in Callers :
       pc[c] \in {"fetch", "spawn", "wait_running", "abort", "wait_stopped",
                  "drop"}
       => semaphore[CurUnit(c)] = c

C13_Witness ==
    \E c \in Callers :
       /\ pc[c] = "wait_stopped"
       /\ running[CurUnit(c)]
       /\ semaphore[CurUnit(c)] = c

\* C14: the acquire that moves count 0 -> 1 launches and leaves its wait only
\* in a state where running is true; the release that moves count 1 -> 0
\* calls abort and leaves its wait only in a state where running is false
\* (so it never returns while running stays true); every other acquire and
\* release goes from its fetch straight to the drop; a call returns only
\* through its drop.
C14_BlockingTransitions ==
    [][\A c \in Callers :
          /\ (pc[c] = "fetch" /\ pc'[c] # "fetch" /\ Cur(c)[1] = "acquire")
             => pc'[c] = (IF count[CurUnit(c)] = 0 THEN "spawn" ELSE "drop")
          /\ (pc[c] = "fetch" /\ pc'[c] # "fetch" /\ Cur(c)[1] = "release")
             => pc'[c] = (IF count[CurUnit(c)] = 1 THEN "abort" ELSE "drop")
          /\ (pc[c] = "spawn" /\ pc'[c] # "spawn") => pc'[c] = "wait_running"
          /\ (pc[c] = "wait_running" /\ pc'[c] # "wait_running")
             => (pc'[c] = "drop" /\ running[CurUnit(c)])
          /\ (pc[c] = "abort" /\ pc'[c] # "abort") => pc'[c] = "wait_stopped"
          /\ (pc[c] = "wait_stopped" /\ pc'[c] # "wait_stopped")
             => (pc'[c] = "drop" /\ ~running[CurUnit(c)])
          /\ (pc[c] # "idle" /\ pc'[c] = "idle") => pc[c] = "drop"]_vars

\* A release that waits for good: the entry is dead, running stays true and
\* nothing in the system can move.
C14_Witness ==
    /\ \E c \in Callers : pc[c] = "wait_stopped" /\ running[CurUnit(c)]
    /\ \A u \in Units : EntriesAt(u, {"spawned", "start", "returned", "clean"}) = {}
    /\ \E d \in Callers : pc[d] = "lock" \/ Returned(d)
    /\ ~ENABLED NextEarly

\* C15: on one unit at most one caller is between taking and dropping the
\* semaphore, it is the caller the semaphore names, and only that caller
\* changes count, launches or calls abort.
C15_MutualExclusion ==
    /\ [](\A u \in Units :
            /\ Cardinality({c \in Callers : InCall(c, u) /\ pc[c] # "lock"}) <= 1
            /\ \A c \in Callers :
                 (InCall(c, u) /\ pc[c] # "lock") => semaphore[u] = c)
    /\ [][\A u \in Units :
            (count'[u] # count[u] \/ Len(entry'[u]) # Len(entry[u])
               \/ aborts'[u] # aborts[u])
            => /\ semaphore[u] # 0
               /\ semaphore'[u] = semaphore[u]
               /\ pc'[semaphore[u]] # pc[semaphore[u]]]_vars

C15_Witness ==
    \E c \in Callers, d \in Callers :
       /\ pc[c] = "fetch" /\ CurUnit(c) = 1 /\ count[1] >= 2
       /\ pc[d] = "lock" /\ CurUnit(d) = 1

\* C16: the phase of a unit, read off count and running.
Phase(u) ==
    IF count[u] = 0
    THEN (IF running[u] THEN "Deactivating" ELSE "Inactive")
    ELSE (IF running[u] THEN "Active" ELSE "Activating")

PhaseCycle ==
    { <<"Inactive", "Activating">>, <<"Activating", "Active">>,
      <<"Active", "Deactivating">>, <<"Deactivating", "Inactive">> }

Live == {"spawned", "start", "returned", "clean"}

\* C16: with paired calls and an actor that returns only after abort, a unit
\* is Inactive with no live entry, Activating with the acquire that holds the
\* semaphore launching (about to call Actor::spawn, or waiting for the thread
\* it started), Active with one entry inside start(), or Deactivating with
\* the release that holds the semaphore stopping it (about to call abort, or
\* stop requested and waiting); the phase changes only along
\* Inactive -> Activating -> Active -> Deactivating -> Inactive.
C16_StateMachine ==
    /\ [](\A u \in Units :
            /\ Phase(u) = "Inactive" => EntriesAt(u, Live) = {}
            /\ Phase(u) = "Activating" =>
                 \E c \in Callers :
                    /\ semaphore[u] = c /\ Cur(c) = <<"acquire", u>>
                    /\ \/ pc[c] = "spawn" /\ EntriesAt(u, Live) = {}
                       \/ /\ pc[c] = "wait_running"
                          /\ EntriesAt(u, Live) = {Len(entry[u])}
                          /\ entry[u][Len(entry[u])] = "spawned"
            /\ Phase(u) = "Active" =>
                 /\ EntriesAt(u, Live) = {Len(entry[u])}
                 /\ entry[u][Len(entry[u])] = "start"
                 /\ ~stopReq[u]
            /\ Phase(u) = "Deactivating" =>
                 \E c \in Callers :
                    /\ semaphore[u] = c /\ Cur(c) = <<"release", u>>
                    /\ EntriesAt(u, Live) = {Len(entry[u])}
                    /\ \/ pc[c] = "abort" /\ aborts[u] = Len(entry[u]) - 1
                       \/ pc[c] = "wait_stopped" /\ aborts[u] = Len(entry[u]))
    /\ [][\A u \in Units :
            Phase(u)' # Phase(u) => <<Phase(u), Phase(u)'>> \in PhaseCycle]_vars

\* The second cycle of a unit has reached its Deactivating phase.
C16_Witness ==
    /\ Phase(1) = "Deactivating"
    /\ Spawns(1) = 2
    /\ aborts[1] = 2

\* C18: at most one launched entry of a unit is alive (not yet past its store
\* of running = false), so never two are inside start(); a thread is launched
\* only when every earlier entry is done and running is false.
C18_SingleLiveInstance ==
    /\ [](\A u \in Units : Cardinality(EntriesAt(u, Live)) <= 1)
    /\ [][\A u \in Units :
            Len(entry'[u]) # Len(entry[u]) =>
               /\ \A i \in 1..Len(entry[u]) : entry[u][i] = "done"
               /\ ~running[u]]_vars

C18_Witness ==
    /\ Spawns(1) = 2
    /\ entry[1] = <<"done", "start">>
    /\ running[1]

\* C19: while the semaphore of a unit is free, running is true exactly when
\* count > 0; every acquire, launching or not, drops its guard and returns
\* in a state where running is true.
C19_QuiescentConsistency ==
    /\ [](\A u \in Units : semaphore[u] = 0 => (running[u] <=> count[u] > 0))
    /\ [][\A c \in Callers :
            (pc[c] = "drop" /\ pc'[c] = "idle" /\ Cur(c)[1] = "acquire")
            => running[CurUnit(c)]]_vars

\* An acquire that did not launch has returned.
C19_Witness ==
    /\ semaphore[1] = 0
    /\ count[1] = 2
    /\ running[1]
    /\ Spawns(1) = 1
    /\ \A c \in Callers : pc[c] = "idle" /\ log[c] # <<>>

\* ---- an actor whose spawn() or abort() may panic, behind a pair of units
\* A1::spawn() panics inside ActorUnit::spawn, after fetch_add: the guard is
\* a ManuallyDrop and is not dropped by the unwinding, so the semaphore stays
\* locked (and is not poisoned).
SpawnPanics(c) ==
    /\ pc[c] = "spawn"
    /\ pc' = [pc EXCEPT ![c] = "panicked"]
    /\ log' = [log EXCEPT ![c] = Append(@, <<Cur(c)[1], CurUnit(c), "panic">>)]
    /\ UNCHANGED <<actor, unitVars, entry, stopReq, fixtureVars, callVars,
                   aborts, retCount, overlap>>

\* self.actor.abort() panics inside ActorUnit::abort, after fetch_sub.
AbortPanics(c) ==
    /\ pc[c] = "abort"
    /\ pc' = [pc EXCEPT ![c] = "panicked"]
    /\ log' = [log EXCEPT ![c] = Append(@, <<Cur(c)[1], CurUnit(c), "panic">>)]
    /\ UNCHANGED <<actor, unitVars, entry, stopReq, fixtureVars, callVars,
                   aborts, retCount, overlap>>

\* Variant: the panic of a member is swallowed and the delegation goes on.
Unwind_Continues(c) ==
    /\ pc[c] = "panicked"
    /\ todo' = [todo EXCEPT ![c] = Tail(@)]
    /\ pc' = [pc EXCEPT ![c] = "idle"]
    /\ UNCHANGED <<actor, unitVars, entry, stopReq, fixtureVars, root, script,
                   aborts, retCount, log, overlap>>
\* The panic leaves (U1, U2)::acquire / release through the statement
\* self.0.acquire() / self.0.release(): what follows it is not executed and
\* the calling thread unwinds.
Unwind(c) ==
    /\ pc[c] = "panicked"
    /\ todo' = [todo EXCEPT ![c] = <<>>]
    /\ script' = [script EXCEPT ![c] = <<>>]
    /\ pc' = [pc EXCEPT ![c] = "dead"]
    /\ UNCHANGED <<actor, unitVars, entry, stopReq, fixtureVars, root,
                   aborts, retCount, log, overlap>>

InitPanic ==
    /\ InitUnits
    /\ InitFixture
    /\ actor = [u \in Units |-> "Obedient"]
    /\ root = "pair"
    /\ script = [c \in Callers |-> Paired(1)]

NextPanic ==
    \/ Next
    \/ \E c \in Callers : SpawnPanics(c) \/ AbortPanics(c) \/ Unwind(c)

SpecPanic == InitPanic /\ [][NextPanic]_vars

PanicAt(c, op, u) ==
    /\ pc[c] \in {"panicked", "dead"}
    /\ log[c] # <<>>
    /\ Last(log[c]) = <<op, u, "panic">>

EventsOn(c, u) == {k \in 1..Len(log[c]) : log[c][k][2] = u}

\* C17: behind the pair (unit 1, unit 2), once a call of a caller on unit 1
\* has panicked the caller makes no further call: the panic is the last
\* event of its log. After a panicking acquire of unit 1 the caller has made
\* no call on unit 2 (which is untouched if nobody else called it), and
\* unit 1 keeps the increment, with its semaphore still held; after a
\* panicking release of unit 1 the caller's release of unit 2 is never made,
\* so unit 2 keeps count > 0 and running = true, while unit 1 keeps the
\* decrement.
C17_PartialCompositeFailure ==
    \A c \in Callers :
       /\ (\E k \in 1..Len(log[c]) : log[c][k][3] = "panic") =>
             /\ pc[c] \in {"panicked", "dead"}
             /\ Last(log[c])[3] = "panic"
             /\ \A k \in 1..(Len(log[c]) - 1) : log[c][k][3] # "panic"
       /\ PanicAt(c, "acquire", 1) =>
             /\ EventsOn(c, 2) = {}
             /\ (\A d \in Callers : EventsOn(d, 2) = {}) =>
                   (count[2] = 0 /\ ~running[2] /\ entry[2] = <<>>)
             /\ count[1] = 1 /\ ~running[1] /\ semaphore[1] = c
       /\ PanicAt(c, "release", 1) =>
             /\ \A k \in EventsOn(c, 2) : log[c][k][1] = "acquire"
             /\ count[2] >= 1 /\ running[2]
             /\ count[1] = 0 /\ running[1] /\ semaphore[1] = c

\* A release of the pair has died in its first member: unit 1 is left
\* without holders, unit 2 still held and running.
C17_Witness ==
    /\ pc[1] = "dead"
    /\ PanicAt(1, "release", 1)
    /\ count[1] = 0
    /\ count[2] = 1
    /\ running[2]

\* ---- fair scheduling: a step that can be taken is eventually taken. Every
\* step of Next is a step of a running thread (a caller, or a launched entry
\* of an actor whose start() returns once abort has asked it to).
\* Caller 1 holds up to MaxHold times, the others once.
InitFair ==
    /\ InitUnits
    /\ InitFixture
    /\ actor = [u \in Units |-> "Obedient"]
    /\ root = "unit"
    /\ script \in [Callers -> PairedScripts]
    /\ \A c \in Callers : c # 1 => script[c] = Paired(1)

FairSpec == InitFair /\ [][Next]_vars /\ WF_vars(Next)

\* C20: under fair scheduling, with paired calls and an actor that returns
\* from start() once asked and not before, every call of acquire or release
\* that has started eventually returns, a taken semaphore is eventually free
\* again, and in the end every caller has returned from all its calls with
\* every semaphore free.
C20_Termination ==
    /\ \A c \in Callers : (pc[c] # "idle") ~> (pc[c] = "idle")
    /\ \A u \in Units : (semaphore[u] # 0) ~> (semaphore[u] = 0)
    /\ <>[](AllReturned /\ \A u \in Units : semaphore[u] = 0)

\* All callers are back from both a launching and a stopping call.
C20_Witness ==
    /\ AllReturned
    /\ \A u \in Units : semaphore[u] = 0 /\ count[u] = 0 /\ ~running[u]
    /\ \A c \in Callers : Len(log[c]) >= 4
    /\ aborts[1] >= 1
    /\ overlap

====
